---- MODULE Spec2Model ----
(***************************************************************************)
(* raylib-sys/build.rs: the Cargo build script of raylib-sys.              *)
(*                                                                         *)
(* main classifies the TARGET triple, copies the vendored raylib source,   *)
(* builds it with cmake, normalises the produced library file, writes one  *)
(* of four precomputed bindings files and prints the cargo linker          *)
(* directives.  Every failure is a panic that ends the script.             *)
(*                                                                         *)
(* Strings are the Rust strings themselves; contains / ends_with are       *)
(* computed on their characters.                                           *)
(***************************************************************************)
EXTENDS Integers, Sequences, FiniteSets, TLC

(***************************************************************************)
(* str::contains and str::ends_with                                        *)
(***************************************************************************)
Contains(s, pat) ==
    \E i \in 1..(Len(s) - Len(pat) + 1) : SubSeq(s, i, i + Len(pat) - 1) = pat

EndsWith(s, pat) ==
    /\ Len(pat) <= Len(s)
    /\ SubSeq(s, Len(s) - Len(pat) + 1, Len(s)) = pat

\* PathBuf::join with a relative component
Join(path, name) == path \o "/" \o name

(***************************************************************************)
(* enum Platform, enum PlatformOS                                          *)
(***************************************************************************)
Platform == {"Web", "Desktop", "Android", "RPI"}

PlatformOS == {"Windows", "Linux", "BSD", "OSX", "Unknown"}

(***************************************************************************)
(* Inputs of a run                                                         *)
(***************************************************************************)
\* Pieces of target triples; a target is a concatenation of at most
\* MaxFrags of them.
Frags == {"wasm32", "armv7", "aarch64", "-unknown-linux", "-linux-android",
          "-pc-windows", "eabi"}

MaxFrags == 3

RECURSIVE ConcatAll(_)
ConcatAll(fs) == IF fs = <<>> THEN "" ELSE Head(fs) \o ConcatAll(Tail(fs))

Targets ==
    { ConcatAll(fs) : fs \in UNION { [1..n -> Frags] : n \in 1..MaxFrags } }

\* Triples the script is built for, and triples that match several rules.
BuildTargets ==
    { "wasm32-unknown-emscripten", "wasm32-linux-android",
      "armv7-unknown-linux-gnueabihf", "armv7-unknown-linux-android",
      "aarch64-linux-android", "armv7-linux-androideabi",
      "x86_64-linux-android", "x86_64-pc-windows-msvc",
      "wasm32-pc-windows-msvc", "x86_64-unknown-linux-gnu" }

\* The OS environment variable: unset (read as "") or the Windows marker.
OsValues == {"", "Windows_NT"}

\* What `uname` prints on the build host; NoUname: the command cannot be run.
NoUname == "<uname cannot be run>"

KernelNames ==
    {"Linux", "FreeBSD", "OpenBSD", "NetBSD", "DragonFly", "Darwin", "SunOS",
     NoUname}

\* kernel before the uname command has been run in this build
NotQueried == "<uname not run yet>"

\* ANDROID_NDK_ROOT: unset (""), or the NDK directory
NdkValues == {"", "/opt/android-ndk"}

VARIABLES
    target,             \* env TARGET
    env_OS,             \* env OS ("" when unset)
    kernel,             \* what the uname command gave, once it has been run
    wayland,            \* cfg(feature = "wayland")
    nobuild,            \* cfg(feature = "nobuild")
    EMMAKEN_CFLAGS,     \* env EMMAKEN_CFLAGS ("" when unset)
    call,               \* the function being run: "main", or the unit under test
    ip,                 \* main: index of the next statement of main
    built,              \* build_with_cmake: conf.build() has returned
    platform,           \* main's local `platform` ("" before it is bound)
    platform_os,        \* main's local `platform_os`
    build_pair,         \* build_with_cmake's locals (platform, platform_os)
    uname_calls,        \* number of times the uname command was spawned
    conf,               \* cmake::Config defines handed to conf.build()
    dirs,               \* directories that exist below the build root
    files,              \* files of the build tree: [dir -> [name -> content]]
    files0,             \* the build tree as conf.build() left it
    dst_lib,            \* build_with_cmake's local `dst_lib`
    normalized,         \* normalisation branches entered (Windows, Web)
    stdout,             \* lines printed for cargo
    bindings,           \* OUT_DIR/bindings.rs
    stages,             \* functions of main that have returned, in order
    panic,              \* panic message ("" while running)
    panic_in            \* function of main that panicked

vars == <<target, env_OS, kernel, wayland, nobuild, EMMAKEN_CFLAGS, call, ip,
          built, platform, platform_os, build_pair, uname_calls, conf, dirs, files, files0,
          dst_lib, normalized, stdout, bindings, stages, panic, panic_in>>

(***************************************************************************)
(* fn platform_from_target(target) -> (Platform, PlatformOS)               *)
(* os, env_target: the environment variables OS and TARGET it reads;       *)
(* un: what the uname command gives on this host.                          *)
(***************************************************************************)
\* variant: the Android rule tried before the Raspberry Pi rule
PlatformOf_AndroidFirst(tgt) ==
    IF Contains(tgt, "wasm32") THEN "Web"
    ELSE IF EndsWith(tgt, "linux-android") THEN "Android"
    ELSE IF Contains(tgt, "armv7-unknown-linux") THEN "RPI"
    ELSE "Desktop"

PlatformOf(tgt) ==
    IF Contains(tgt, "wasm32") THEN "Web"
    ELSE IF Contains(tgt, "armv7-unknown-linux") THEN "RPI"
    ELSE IF EndsWith(tgt, "linux-android") THEN "Android"
    ELSE "Desktop"

\* the match on uname(); "" stands for the panicking arm
UnameOS(un) ==
    CASE un = "Linux" -> "Linux"
      [] un = "FreeBSD" -> "BSD"
      [] un = "OpenBSD" -> "BSD"
      [] un = "NetBSD" -> "BSD"
      [] un = "DragonFly" -> "BSD"
      [] un = "Darwin" -> "OSX"
      [] OTHER -> ""

\* variant: only the OS variable is looked at
IsWindows_EnvOnly(os, env_target) == Contains(os, "Windows_NT")

IsWindows(os, env_target) ==
    Contains(os, "Windows_NT") \/ Contains(env_target, "windows")

\* variant: every platform other than Desktop gets Linux
PlatformOsOf_OthersLinux(p, os, env_target, un) ==
    IF p = "Desktop"
    THEN IF IsWindows(os, env_target) THEN "Windows"
         ELSE IF un = NoUname THEN ""
         ELSE UnameOS(un)
    ELSE "Linux"

\* variant: Windows looked for before the platform is looked at
PlatformOsOf_WindowsFirst(p, os, env_target, un) ==
    IF IsWindows(os, env_target) THEN "Windows"
    ELSE IF p = "Desktop"
    THEN IF un = NoUname THEN "" ELSE UnameOS(un)
    ELSE IF p \in {"RPI", "Android"} THEN "Linux"
    ELSE "Unknown"

\* the `let platform_os = if platform == Platform::Desktop ...`; "" stands
\* for a panic inside it
PlatformOsOf(p, os, env_target, un) ==
    IF p = "Desktop"
    THEN IF IsWindows(os, env_target) THEN "Windows"
         ELSE IF un = NoUname THEN ""
         ELSE UnameOS(un)
    ELSE IF p \in {"RPI", "Android"} THEN "Linux"
    ELSE "Unknown"

\* whether that expression reaches `uname()`
QueriesUname(p, os, env_target) == p = "Desktop" /\ ~IsWindows(os, env_target)

platform_from_target(tgt, os, env_target, un) ==
    LET p == PlatformOf(tgt)
        query == QueriesUname(p, os, env_target)
    IN  [ platform    |-> p,
          platform_os |-> PlatformOsOf(p, os, env_target, un),
          set_emmaken |-> Contains(tgt, "wasm32"),
          \* uname() runs once for the match and once more for the message
          \* of the panicking arm
          uname_calls |-> IF ~query THEN 0
                          ELSE IF un = NoUname \/ UnameOS(un) # "" THEN 1
                          ELSE 2,
          panic       |-> IF ~query THEN ""
                          ELSE IF un = NoUname THEN "failed to run uname"
                          ELSE IF UnameOS(un) = "" THEN "Unknown platform " \o un
                          ELSE "" ]

(***************************************************************************)
(* fn build_with_cmake(src_path), cfg(not(feature = "nobuild"))            *)
(***************************************************************************)
\* cargo's OUT_DIR, which cmake::Config::build() returns as `dst`
BuildRoot == "/target/out"

possible_cmake_lib_directories == <<"lib", "lib64", "lib32">>

LibDirs == { Join(BuildRoot, possible_cmake_lib_directories[i]) : i \in 1..3 }

AllDirs == {BuildRoot} \cup LibDirs

FileNames ==
    {"raylib.lib", "raylib_static.lib", "libraylib_static.a", "libraylib.a",
     "libraylib.bc"}

\* file contents: "" is no file, a file cmake wrote holds its own output
\* (named after the file), Partial is what a failed copy or write leaves
NoFile == ""

Partial == "<partial>"

EmptyDir == [n \in FileNames |-> NoFile]

EmptyTree == [d \in AllDirs |-> EmptyDir]

\* the build tree after a successful cmake run: any of lib, lib64, lib32
\* exists, and the library files lie in one existing directory
CmakeTrees ==
    { [ dirs  |-> ds,
        files |-> [d \in AllDirs |->
                     IF d = a THEN [n \in FileNames |-> IF n \in present THEN n ELSE NoFile]
                     ELSE EmptyDir] ] :
      ds \in SUBSET LibDirs, a \in AllDirs, present \in SUBSET FileNames }

ValidTree(t) == \A d \in LibDirs \ t.dirs : t.files[d] = EmptyDir

\* outcome of a filesystem write: done, refused, or broken off half way
IoOutcomes == {"ok", "error", "error_partial"}

\* variant: the last existing candidate is taken
join_cmake_lib_directory_Last(path, exist) ==
    LET hits == { i \in 1..Len(possible_cmake_lib_directories) :
                    Join(path, possible_cmake_lib_directories[i]) \in exist }
        last == CHOOSE i \in hits : \A j \in hits : i >= j
    IN  IF hits = {} THEN path
        ELSE Join(path, possible_cmake_lib_directories[last])

join_cmake_lib_directory(path, exist) ==
    LET hits == { i \in 1..Len(possible_cmake_lib_directories) :
                    Join(path, possible_cmake_lib_directories[i]) \in exist }
        first == CHOOSE i \in hits : \A j \in hits : i <= j
    IN  IF hits = {} THEN path
        ELSE Join(path, possible_cmake_lib_directories[first])

Exists(fs, dir, name) == fs[dir][name] # NoFile

\* std::fs::copy(dir/src, dir/dst).expect(msg)
Copy(fs, dir, src, dst, io, msg) ==
    IF ~Exists(fs, dir, src) THEN [files |-> fs, panic |-> msg]
    ELSE IF io = "ok" THEN [files |-> [fs EXCEPT ![dir][dst] = fs[dir][src]], panic |-> ""]
    ELSE IF io = "error" THEN [files |-> fs, panic |-> msg]
    ELSE [files |-> [fs EXCEPT ![dir][dst] = Partial], panic |-> msg]

\* the match on platform that sets PLATFORM (and the Android defines); the
\* defines made for every platform (BUILD_EXAMPLES, CMAKE_BUILD_TYPE, ...)
\* are the same in every run and are left out of conf
NoConf == [PLATFORM |-> "", ANDROID_ABI |-> "", CMAKE_TOOLCHAIN_FILE |-> ""]

AndroidAbi(tgt) ==
    IF tgt = "aarch64-linux-android" THEN "arm64-v8a"
    ELSE IF tgt = "armv7-linux-androideabi" THEN "armeabi-v7a"
    ELSE ""

Configure(p, tgt, ndk) ==
    CASE p = "Desktop" -> [conf |-> [NoConf EXCEPT !.PLATFORM = "Desktop"], panic |-> ""]
      [] p = "Web" -> [conf |-> [NoConf EXCEPT !.PLATFORM = "Web"], panic |-> ""]
      [] p = "RPI" -> [conf |-> [NoConf EXCEPT !.PLATFORM = "Raspberry Pi"], panic |-> ""]
      [] p = "Android" ->
            IF ndk = ""
            THEN [conf |-> NoConf,
                  panic |-> "Please set the ANDROID_NDK_HOME environment variable"]
            ELSE IF AndroidAbi(tgt) = ""
            THEN [conf |-> NoConf, panic |-> "Unsupported target triple for Android"]
            ELSE [conf |-> [PLATFORM |-> "Android",
                            ANDROID_ABI |-> AndroidAbi(tgt),
                            CMAKE_TOOLCHAIN_FILE |->
                                ndk \o "/build/cmake/android.toolchain.cmake"],
                  panic |-> ""]

\* variant: libraylib.a looked for before libraylib_static.a
NormalizeWindows_DestFirst(fs, dir, io) ==
    IF Exists(fs, dir, "raylib.lib") THEN [files |-> fs, panic |-> ""]
    ELSE IF Exists(fs, dir, "raylib_static.lib")
    THEN Copy(fs, dir, "raylib_static.lib", "raylib.lib", io,
              "failed to create windows library")
    ELSE IF Exists(fs, dir, "libraylib.a") THEN [files |-> fs, panic |-> ""]
    ELSE IF Exists(fs, dir, "libraylib_static.a")
    THEN Copy(fs, dir, "libraylib_static.a", "libraylib.a", io,
              "failed to create windows library")
    ELSE [files |-> fs, panic |-> "failed to create windows library"]

\* on windows copy the static library to the proper file name
NormalizeWindows(fs, dir, io) ==
    IF Exists(fs, dir, "raylib.lib") THEN [files |-> fs, panic |-> ""]
    ELSE IF Exists(fs, dir, "raylib_static.lib")
    THEN Copy(fs, dir, "raylib_static.lib", "raylib.lib", io,
              "failed to create windows library")
    ELSE IF Exists(fs, dir, "libraylib_static.a")
    THEN Copy(fs, dir, "libraylib_static.a", "libraylib.a", io,
              "failed to create windows library")
    ELSE IF Exists(fs, dir, "libraylib.a") THEN [files |-> fs, panic |-> ""]
    ELSE [files |-> fs, panic |-> "failed to create windows library"]

\* on web copy libraylib.bc to libraylib.a
NormalizeWeb(fs, dir, io) ==
    Copy(fs, dir, "libraylib.bc", "libraylib.a", io, "failed to create wasm library")

\* the two `if`s after conf.build(): which ran, the tree they leave, the panic
Normalize(fs, dir, pair, io_win, io_web) ==
    LET win == IF pair.platform_os = "Windows" THEN NormalizeWindows(fs, dir, io_win)
               ELSE [files |-> fs, panic |-> ""]
        web == IF pair.platform = "Web" /\ win.panic = ""
               THEN NormalizeWeb(win.files, dir, io_web)
               ELSE [files |-> win.files, panic |-> win.panic]
    IN  [ files |-> web.files,
          panic |-> web.panic,
          ran   |-> (IF pair.platform_os = "Windows" THEN {"Windows"} ELSE {})
                    \cup (IF pair.platform = "Web" /\ win.panic = "" THEN {"Web"} ELSE {}) ]

SearchDirective(dir) == "cargo:rustc-link-search=native=" \o dir

(***************************************************************************)
(* fn gen_bindings(): the match on (platform, platform_os); "" stands for  *)
(* the panicking arm                                                       *)
(***************************************************************************)
\* variant: the Web arm tried before the OS arms
gen_bindings_match_WebFirst(p, p_os) ==
    IF p = "Web" THEN "bindings_web.rs"
    ELSE IF p_os = "Windows" THEN "bindings_windows.rs"
    ELSE IF p_os = "Linux" THEN "bindings_linux.rs"
    ELSE IF p_os = "OSX" THEN "bindings_osx.rs"
    ELSE ""

gen_bindings_match(p, p_os) ==
    IF p_os = "Windows" THEN "bindings_windows.rs"
    ELSE IF p_os = "Linux" THEN "bindings_linux.rs"
    ELSE IF p_os = "OSX" THEN "bindings_osx.rs"
    ELSE IF p = "Web" THEN "bindings_web.rs"
    ELSE ""

(***************************************************************************)
(* fn link(platform, platform_os), cfg(not(feature = "nobuild")): the      *)
(* lines it prints                                                         *)
(***************************************************************************)
LinkOs(p_os, wl) ==
    CASE p_os = "Windows" ->
            << "cargo:rustc-link-lib=dylib=winmm",
               "cargo:rustc-link-lib=dylib=gdi32",
               "cargo:rustc-link-lib=dylib=user32",
               "cargo:rustc-link-lib=dylib=shell32" >>
      [] p_os = "Linux" ->
            IF ~wl
            THEN << "cargo:rustc-link-search=/usr/local/lib",
                    "cargo:rustc-link-lib=X11" >>
            ELSE << "cargo:rustc-link-search=/usr/local/lib",
                    "cargo:rustc-link-lib=wayland-client",
                    "cargo:rustc-link-lib=glfw" >>
      [] p_os = "OSX" ->
            << "cargo:rustc-link-search=native=/usr/local/lib",
               "cargo:rustc-link-lib=framework=OpenGL",
               "cargo:rustc-link-lib=framework=Cocoa",
               "cargo:rustc-link-lib=framework=IOKit",
               "cargo:rustc-link-lib=framework=CoreFoundation",
               "cargo:rustc-link-lib=framework=CoreVideo" >>
      [] OTHER -> << >>

LinkPlatform(p) ==
    IF p = "Web" THEN << "cargo:rustc-link-lib=glfw" >>
    ELSE IF p = "RPI"
    THEN << "cargo:rustc-link-search=/opt/vc/lib",
            "cargo:rustc-link-lib=bcm_host",
            "cargo:rustc-link-lib=brcmEGL",
            "cargo:rustc-link-lib=brcmGLESv2",
            "cargo:rustc-link-lib=vcos" >>
    ELSE << >>

\* variant: the Raspberry Pi additions printed for no platform
link_NoRpi(p, p_os, wl) ==
    LinkOs(p_os, wl)
    \o (IF p = "Web" THEN << "cargo:rustc-link-lib=glfw" >> ELSE << >>)
    \o << "cargo:rustc-link-lib=static=raylib" >>

link(p, p_os, wl) ==
    LinkOs(p_os, wl) \o LinkPlatform(p) \o << "cargo:rustc-link-lib=static=raylib" >>

(***************************************************************************)
(* fn main(): the calls it makes, in order                                 *)
(***************************************************************************)
\* variant: link called before gen_bindings
main_LinkFirst ==
    << "platform_from_target", "cp_raylib", "build_with_cmake", "link",
       "gen_bindings", "gen_rgui" >>

main ==
    << "platform_from_target", "cp_raylib", "build_with_cmake", "gen_bindings",
       "link", "gen_rgui" >>

Running(f) ==
    /\ call = "main"
    /\ panic = ""
    /\ ip \in 1..Len(main)
    /\ main[ip] = f

\* what the uname command can give: anything the first time, the same after
UnameResults == IF kernel = NotQueried THEN KernelNames ELSE {kernel}

Return ==
    /\ ip' = ip + 1
    /\ stages' = Append(stages, main[ip])
    /\ UNCHANGED <<panic, panic_in>>

Panic(msg) ==
    /\ panic' = msg
    /\ panic_in' = main[ip]
    /\ UNCHANGED <<ip, stages>>

Inputs == <<target, env_OS, wayland, nobuild, call>>

Init ==
    /\ target \in BuildTargets
    /\ env_OS \in OsValues
    /\ kernel = NotQueried
    /\ wayland \in BOOLEAN
    /\ nobuild \in BOOLEAN
    /\ EMMAKEN_CFLAGS = ""
    /\ call = "main"
    /\ ip = 1
    /\ built = FALSE
    /\ platform = ""
    /\ platform_os = ""
    /\ build_pair = [platform |-> "", platform_os |-> ""]
    /\ uname_calls = 0
    /\ conf = NoConf
    /\ dirs = {}
    /\ files = EmptyTree
    /\ files0 = EmptyTree
    /\ dst_lib = ""
    /\ normalized = {}
    /\ stdout = << >>
    /\ bindings = NoFile
    /\ stages = << >>
    /\ panic = ""
    /\ panic_in = ""

\* the environment after one call of platform_from_target giving r
Classified(r, un) ==
    /\ EMMAKEN_CFLAGS' = IF r.set_emmaken THEN "-s USE_GLFW=3" ELSE EMMAKEN_CFLAGS
    /\ uname_calls' = uname_calls + r.uname_calls
    /\ kernel' = IF r.uname_calls > 0 THEN un ELSE kernel

\* let (platform, platform_os) = platform_from_target(&target);
MainClassify ==
    /\ Running("platform_from_target")
    /\ \E un \in UnameResults :
        LET r == platform_from_target(target, env_OS, target, un)
        IN  /\ Classified(r, un)
            /\ IF r.panic # ""
               THEN Panic(r.panic) /\ UNCHANGED <<platform, platform_os>>
               ELSE /\ platform' = r.platform
                    /\ platform_os' = r.platform_os
                    /\ Return
    /\ UNCHANGED <<Inputs, built, build_pair, conf, dirs, files, files0, dst_lib,
                   normalized, stdout, bindings>>

\* let src = cp_raylib();
CpRaylib ==
    /\ Running("cp_raylib")
    /\ \E ok \in BOOLEAN :
        IF ok THEN Return ELSE Panic("failed to copy raylib source to /target/out")
    /\ UNCHANGED <<Inputs, kernel, EMMAKEN_CFLAGS, built, platform, platform_os,
                   build_pair, uname_calls, conf, dirs, files, files0, dst_lib,
                   normalized, stdout, bindings>>

\* build_with_cmake with feature nobuild: the empty function
BuildNobuild ==
    /\ Running("build_with_cmake")
    /\ nobuild
    /\ Return
    /\ UNCHANGED <<Inputs, kernel, EMMAKEN_CFLAGS, built, platform, platform_os,
                   build_pair, uname_calls, conf, dirs, files, files0, dst_lib,
                   normalized, stdout, bindings>>

\* build_with_cmake up to `let dst = conf.build();`
BuildConfigure ==
    /\ Running("build_with_cmake")
    /\ ~nobuild
    /\ ~built
    /\ \E un \in UnameResults, ndk \in NdkValues :
        LET r == platform_from_target(target, env_OS, target, un)
            c == Configure(r.platform, target, ndk)
        IN  /\ Classified(r, un)
            /\ IF r.panic # ""
               THEN /\ Panic(r.panic)
                    /\ UNCHANGED <<built, build_pair, conf, dirs, files, files0>>
               ELSE IF c.panic # ""
               THEN /\ Panic(c.panic)
                    /\ build_pair' = [platform |-> r.platform,
                                      platform_os |-> r.platform_os]
                    /\ UNCHANGED <<built, conf, dirs, files, files0>>
               ELSE /\ build_pair' = [platform |-> r.platform,
                                      platform_os |-> r.platform_os]
                    /\ conf' = c.conf
                    /\ \/ /\ Panic("cmake build failed")
                          /\ UNCHANGED <<built, dirs, files, files0>>
                       \/ \E t \in CmakeTrees :
                            /\ ValidTree(t)
                            /\ built' = TRUE
                            /\ dirs' = t.dirs
                            /\ files' = t.files
                            /\ files0' = t.files
                            /\ UNCHANGED <<ip, stages, panic, panic_in>>
    /\ UNCHANGED <<Inputs, platform, platform_os, dst_lib, normalized, stdout,
                   bindings>>

\* build_with_cmake from join_cmake_lib_directory(dst) to the println!
BuildFinish ==
    /\ Running("build_with_cmake")
    /\ built
    /\ \E io_win \in IoOutcomes, io_web \in IoOutcomes :
        LET lib == join_cmake_lib_directory(BuildRoot, dirs)
            n == Normalize(files, lib, build_pair, io_win, io_web)
        IN  /\ dst_lib' = lib
            /\ files' = n.files
            /\ normalized' = n.ran
            /\ IF n.panic # ""
               THEN Panic(n.panic) /\ UNCHANGED stdout
               ELSE /\ stdout' = Append(stdout, SearchDirective(lib))
                    /\ Return
    /\ UNCHANGED <<Inputs, kernel, EMMAKEN_CFLAGS, built, platform, platform_os,
                   build_pair, uname_calls, conf, dirs, files0, bindings>>

\* gen_bindings();
GenBindings ==
    /\ Running("gen_bindings")
    /\ \E un \in UnameResults, io \in IoOutcomes :
        LET r == platform_from_target(target, env_OS, target, un)
            blob == gen_bindings_match(r.platform, r.platform_os)
        IN  /\ Classified(r, un)
            /\ IF r.panic # "" THEN Panic(r.panic) /\ UNCHANGED bindings
               ELSE IF blob = ""
               THEN /\ Panic("raylib-rs not supported on your platform")
                    /\ UNCHANGED bindings
               ELSE IF io = "ok" THEN bindings' = blob /\ Return
               ELSE /\ Panic("failed to write bindings")
                    /\ bindings' = IF io = "error" THEN bindings ELSE Partial
    /\ UNCHANGED <<Inputs, built, platform, platform_os, build_pair, conf, dirs,
                   files, files0, dst_lib, normalized, stdout>>

\* link(platform, platform_os);
Link ==
    /\ Running("link")
    /\ stdout' = IF nobuild THEN stdout
                 ELSE stdout \o link(platform, platform_os, wayland)
    /\ Return
    /\ UNCHANGED <<Inputs, kernel, EMMAKEN_CFLAGS, built, platform, platform_os,
                   build_pair, uname_calls, conf, dirs, files, files0, dst_lib,
                   normalized, bindings>>

\* gen_rgui();
GenRgui ==
    /\ Running("gen_rgui")
    /\ \E ok \in BOOLEAN :
        IF ok THEN Return ELSE Panic("cc: failed to compile rgui")
    /\ UNCHANGED <<Inputs, kernel, EMMAKEN_CFLAGS, built, platform, platform_os,
                   build_pair, uname_calls, conf, dirs, files, files0, dst_lib,
                   normalized, stdout, bindings>>

(***************************************************************************)
(* The functions on their own, called with every argument of their types   *)
(***************************************************************************)
Idle ==
    /\ EMMAKEN_CFLAGS = ""
    /\ nobuild = FALSE
    /\ ip = 0
    /\ built = FALSE
    /\ build_pair = [platform |-> "", platform_os |-> ""]
    /\ uname_calls = 0
    /\ conf = NoConf
    /\ dirs = {}
    /\ files = EmptyTree
    /\ files0 = EmptyTree
    /\ dst_lib = ""
    /\ normalized = {}
    /\ stdout = << >>
    /\ bindings = NoFile
    /\ stages = << >>
    /\ panic = ""
    /\ panic_in = ""

\* platform_from_target: any target, any OS variable, any uname result
UnitInitTarget ==
    /\ call = "platform_from_target"
    /\ target \in Targets \cup BuildTargets
    /\ env_OS \in OsValues
    /\ kernel \in KernelNames
    /\ wayland = FALSE
    /\ platform = ""
    /\ platform_os = ""
    /\ Idle

\* link and the match of gen_bindings: any (Platform, PlatformOS)
UnitInitPair ==
    /\ call \in {"link", "gen_bindings"}
    /\ target = ""
    /\ env_OS = ""
    /\ kernel = NotQueried
    /\ wayland \in (IF call = "link" THEN BOOLEAN ELSE {FALSE})
    /\ platform \in Platform
    /\ platform_os \in PlatformOS
    /\ Idle

UnitInit == UnitInitTarget \/ UnitInitPair

UnitCall(f) ==
    /\ call = f
    /\ stages = << >>
    /\ panic = ""

UnitPlatformFromTarget ==
    /\ UnitCall("platform_from_target")
    /\ LET r == platform_from_target(target, env_OS, target, kernel)
       IN  /\ EMMAKEN_CFLAGS' = IF r.set_emmaken THEN "-s USE_GLFW=3"
                                ELSE EMMAKEN_CFLAGS
           /\ uname_calls' = uname_calls + r.uname_calls
           /\ IF r.panic # ""
              THEN /\ panic' = r.panic
                   /\ panic_in' = call
                   /\ UNCHANGED <<platform, platform_os, stages>>
              ELSE /\ platform' = r.platform
                   /\ platform_os' = r.platform_os
                   /\ stages' = <<call>>
                   /\ UNCHANGED <<panic, panic_in>>
    /\ UNCHANGED <<Inputs, kernel, ip, built, build_pair, conf, dirs, files, files0,
                   dst_lib, normalized, stdout, bindings>>

UnitLink ==
    /\ UnitCall("link")
    /\ stdout' = link(platform, platform_os, wayland)
    /\ stages' = <<call>>
    /\ UNCHANGED <<Inputs, kernel, EMMAKEN_CFLAGS, ip, built, platform, platform_os,
                   build_pair, uname_calls, conf, dirs, files, files0, dst_lib,
                   normalized, bindings, panic, panic_in>>

UnitGenBindings ==
    /\ UnitCall("gen_bindings")
    /\ \E io \in IoOutcomes :
        LET blob == gen_bindings_match(platform, platform_os)
        IN  IF blob = ""
            THEN /\ panic' = "raylib-rs not supported on your platform"
                 /\ panic_in' = call
                 /\ UNCHANGED <<bindings, stages>>
            ELSE IF io = "ok"
            THEN /\ bindings' = blob
                 /\ stages' = <<call>>
                 /\ UNCHANGED <<panic, panic_in>>
            ELSE /\ panic' = "failed to write bindings"
                 /\ panic_in' = call
                 /\ bindings' = (IF io = "error" THEN bindings ELSE Partial)
                 /\ UNCHANGED stages
    /\ UNCHANGED <<Inputs, kernel, EMMAKEN_CFLAGS, ip, built, platform, platform_os,
                   build_pair, uname_calls, conf, dirs, files, files0, dst_lib,
                   normalized, stdout>>

UnitNext ==
    \/ UnitPlatformFromTarget
    \/ UnitLink
    \/ UnitGenBindings

UnitSpec == UnitInit /\ [][UnitNext]_vars

Next ==
    \/ MainClassify
    \/ CpRaylib
    \/ BuildNobuild
    \/ BuildConfigure
    \/ BuildFinish
    \/ GenBindings
    \/ Link
    \/ GenRgui

Spec == Init /\ [][Next]_vars

(***************************************************************************)
(* Properties                                                              *)
(***************************************************************************)
\* a unit call of f has ended, by returning or by panicking
Ended(f) == call = f /\ (stages # << >> \/ panic # "")

Returned(f) == call = f /\ stages # << >>

MatchesDesktop(tgt) ==
    /\ ~Contains(tgt, "wasm32")
    /\ ~Contains(tgt, "armv7-unknown-linux")
    /\ ~EndsWith(tgt, "linux-android")

\* C1: platform_from_target gives the platform of the first rule the target
\* matches, in the order wasm32 (Web), armv7-unknown-linux (RaspberryPi),
\* suffix linux-android (Android), otherwise Desktop; EMMAKEN_CFLAGS is set
\* to "-s USE_GLFW=3" by the call exactly when the target contains wasm32.
C1_PlatformByFirstRule ==
    /\ Returned("platform_from_target") =>
        /\ (Contains(target, "wasm32") => platform = "Web")
        /\ (~Contains(target, "wasm32") /\ Contains(target, "armv7-unknown-linux")
              => platform = "RPI")
        /\ (~Contains(target, "wasm32") /\ ~Contains(target, "armv7-unknown-linux")
              /\ EndsWith(target, "linux-android")
              => platform = "Android")
        /\ (MatchesDesktop(target) => platform = "Desktop")
    /\ call = "platform_from_target" =>
        ((EMMAKEN_CFLAGS = "-s USE_GLFW=3")
            <=> (Ended("platform_from_target") /\ Contains(target, "wasm32")))

\* a target matching the Raspberry Pi rule and the Android rule was classified
C1_Witness ==
    /\ Returned("platform_from_target")
    /\ Contains(target, "armv7-unknown-linux")
    /\ EndsWith(target, "linux-android")
    /\ platform = "RPI"

\* C7: for a Desktop target with OS carrying Windows_NT or the target
\* containing "windows" the result is (Desktop, Windows) and uname is never
\* run; uname runs only for a Desktop target without either, where Linux
\* gives Linux, FreeBSD/OpenBSD/NetBSD/DragonFly give BSD, Darwin gives OSX
\* and any other kernel name panics with "Unknown platform <name>".
C7_WindowsSkipsUname ==
    Ended("platform_from_target") =>
        LET win == Contains(env_OS, "Windows_NT") \/ Contains(target, "windows")
        IN  /\ MatchesDesktop(target) /\ win =>
                /\ Returned("platform_from_target")
                /\ platform = "Desktop"
                /\ platform_os = "Windows"
                /\ uname_calls = 0
            /\ uname_calls > 0 => MatchesDesktop(target) /\ ~win
            /\ MatchesDesktop(target) /\ ~win /\ kernel # NoUname =>
                /\ uname_calls > 0
                /\ kernel = "Linux" => Returned(call) /\ platform_os = "Linux"
                /\ kernel \in {"FreeBSD", "OpenBSD", "NetBSD", "DragonFly"}
                      => Returned(call) /\ platform_os = "BSD"
                /\ kernel = "Darwin" => Returned(call) /\ platform_os = "OSX"
                /\ kernel \notin {"Linux", "FreeBSD", "OpenBSD", "NetBSD",
                                  "DragonFly", "Darwin"}
                      => /\ ~Returned(call)
                         /\ panic = "Unknown platform " \o kernel

\* a Windows target classified with OS unset, on a host that has a kernel name
C7_Witness ==
    /\ Returned("platform_from_target")
    /\ Contains(target, "windows")
    /\ MatchesDesktop(target)
    /\ env_OS = ""
    /\ kernel = "Linux"
    /\ platform_os = "Windows"
    /\ uname_calls = 0

LinkLine(lib) == "cargo:rustc-link-lib=" \o lib

\* the OS rows of the directive table
TableOs(p_os, wl) ==
    IF p_os = "Windows"
    THEN << LinkLine("dylib=winmm"), LinkLine("dylib=gdi32"),
            LinkLine("dylib=user32"), LinkLine("dylib=shell32") >>
    ELSE IF p_os = "Linux" /\ ~wl
    THEN << "cargo:rustc-link-search=/usr/local/lib", LinkLine("X11") >>
    ELSE IF p_os = "Linux" /\ wl
    THEN << "cargo:rustc-link-search=/usr/local/lib", LinkLine("wayland-client"),
            LinkLine("glfw") >>
    ELSE IF p_os = "OSX"
    THEN << "cargo:rustc-link-search=native=/usr/local/lib",
            LinkLine("framework=OpenGL"), LinkLine("framework=Cocoa"),
            LinkLine("framework=IOKit"), LinkLine("framework=CoreFoundation"),
            LinkLine("framework=CoreVideo") >>
    ELSE << >>

\* the platform rows of the directive table
TablePlatform(p) ==
    IF p = "Web" THEN << LinkLine("glfw") >>
    ELSE IF p = "RPI"
    THEN << "cargo:rustc-link-search=/opt/vc/lib", LinkLine("bcm_host"),
            LinkLine("brcmEGL"), LinkLine("brcmGLESv2"), LinkLine("vcos") >>
    ELSE << >>

Lines(seq) == { seq[i] : i \in 1..Len(seq) }

Occurrences(seq, x) == Cardinality({ i \in 1..Len(seq) : seq[i] = x })

\* C9: link prints the OS rows of the table, then the platform rows, then
\* static=raylib, which is the last line and is printed once; (RaspberryPi,
\* Linux) without wayland prints the X11 lines and the four RPI libraries,
\* (Desktop, OSX) prints no X11 or wayland line.
C9_LinkOrder ==
    Returned("link") =>
        LET k == Len(TableOs(platform_os, wayland))
            m == Len(TablePlatform(platform))
        IN  /\ Len(stdout) = k + m + 1
            /\ SubSeq(stdout, 1, k) = TableOs(platform_os, wayland)
            /\ SubSeq(stdout, k + 1, k + m) = TablePlatform(platform)
            /\ stdout[Len(stdout)] = LinkLine("static=raylib")
            /\ Occurrences(stdout, LinkLine("static=raylib")) = 1
            /\ platform = "RPI" /\ platform_os = "Linux" /\ ~wayland =>
                  {LinkLine("X11"), LinkLine("bcm_host"), LinkLine("brcmEGL"),
                   LinkLine("brcmGLESv2"), LinkLine("vcos"),
                   "cargo:rustc-link-search=/opt/vc/lib"} \subseteq Lines(stdout)
            /\ platform = "Desktop" /\ platform_os = "OSX" =>
                  Lines(stdout) \cap {LinkLine("X11"), LinkLine("wayland-client")} = {}

\* link has printed for (RaspberryPi, Linux) without wayland
C9_Witness ==
    /\ Returned("link")
    /\ platform = "RPI"
    /\ platform_os = "Linux"
    /\ ~wayland
    /\ Len(stdout) = 8

(***************************************************************************)
(* Properties of a run of main                                             *)
(***************************************************************************)
Done(f) == call = "main" /\ \E i \in 1..Len(stages) : stages[i] = f

PanickedIn(f) == call = "main" /\ panic # "" /\ panic_in = f

AndroidToolchain(c) ==
    \E ndk \in NdkValues \ {""} :
        c.CMAKE_TOOLCHAIN_FILE = ndk \o "/build/cmake/android.toolchain.cmake"

\* C2: a build for aarch64-linux-android hands cmake ANDROID_ABI=arm64-v8a,
\* a build for armv7-linux-androideabi hands it ANDROID_ABI=armeabi-v7a, both
\* with PLATFORM=Android and the NDK toolchain file; for any other target
\* classified as Android build_with_cmake panics before cmake is run.
C2_AndroidAbi ==
    /\ conf # NoConf /\ target = "aarch64-linux-android" =>
        /\ conf.PLATFORM = "Android"
        /\ conf.ANDROID_ABI = "arm64-v8a"
        /\ AndroidToolchain(conf)
    /\ conf # NoConf /\ target = "armv7-linux-androideabi" =>
        /\ conf.PLATFORM = "Android"
        /\ conf.ANDROID_ABI = "armeabi-v7a"
        /\ AndroidToolchain(conf)
    /\ /\ build_pair.platform = "Android"
       /\ target \notin {"aarch64-linux-android", "armv7-linux-androideabi"}
       => /\ conf = NoConf
          /\ ~built
          /\ PanickedIn("build_with_cmake")

\* the part of C2 the code keeps: the aarch64 build and the other Android targets
C2_Aarch64Only ==
    /\ conf # NoConf /\ target = "aarch64-linux-android" =>
        /\ conf.PLATFORM = "Android"
        /\ conf.ANDROID_ABI = "arm64-v8a"
        /\ AndroidToolchain(conf)
    /\ /\ build_pair.platform = "Android"
       /\ target \notin {"aarch64-linux-android", "armv7-linux-androideabi"}
       => /\ conf = NoConf
          /\ ~built
          /\ PanickedIn("build_with_cmake")

Blobs ==
    {"bindings_windows.rs", "bindings_linux.rs", "bindings_osx.rs", "bindings_web.rs"}

\* classifier, driver with locator and normalizer, binding selector, emitter
StageOrder ==
    << "platform_from_target", "cp_raylib", "build_with_cmake", "gen_bindings",
       "link", "gen_rgui" >>

InOrder == Len(stages) <= Len(StageOrder) /\ stages = SubSeq(StageOrder, 1, Len(stages))

\* C3 as stated: a run that panics in classification, the native build, the
\* normalization or the binding selection has printed no directive and
\* written none of the bindings blobs; a finished or aborted run that has
\* printed a directive or written a blob has had classifier, driver and
\* binding selector succeed; the stages run in the stated order.
C3_NoPartialOutput ==
    call = "main" =>
        /\ panic # "" /\ panic_in \in {"platform_from_target", "build_with_cmake",
                                       "gen_bindings"}
              => stdout = << >> /\ bindings \notin Blobs
        /\ (panic # "" \/ ip > Len(main)) /\ (stdout # << >> \/ bindings \in Blobs)
              => Done("platform_from_target") /\ Done("build_with_cmake")
                 /\ Done("gen_bindings")
        /\ InOrder

\* C3 as the code has it: a run that panics before gen_bindings has printed
\* nothing and written nothing; a run that panics in gen_bindings has written
\* no complete bindings file (nothing at all when the pair is unsupported)
\* and has printed exactly the native search path of build_with_cmake; a
\* complete bindings file and the directives of link appear only after
\* classifier, driver and binding selector returned; the stages run in the
\* stated order.
C3_NoPartialOutputBeforeSelection ==
    call = "main" =>
        /\ panic # "" /\ panic_in \in {"platform_from_target", "cp_raylib",
                                       "build_with_cmake"}
              => stdout = << >> /\ bindings = NoFile
        /\ PanickedIn("gen_bindings") =>
              /\ bindings \in {NoFile, Partial}
              /\ panic = "raylib-rs not supported on your platform" => bindings = NoFile
              /\ stdout = IF nobuild THEN << >> ELSE << SearchDirective(dst_lib) >>
        /\ bindings \in Blobs \/ Len(stdout) > 1
              \/ LinkLine("static=raylib") \in Lines(stdout)
              => Done("platform_from_target") /\ Done("build_with_cmake")
                 /\ Done("gen_bindings")
        /\ stdout # << >> => Done("build_with_cmake")
        /\ InOrder

\* the build of a BSD host went through cmake and stopped in gen_bindings
C3_Witness ==
    /\ PanickedIn("gen_bindings")
    /\ panic = "raylib-rs not supported on your platform"
    /\ platform_os = "BSD"
    /\ stdout = << SearchDirective(dst_lib) >>
    /\ bindings = NoFile

\* C4: the lines printed by build_with_cmake and link in one run are pairwise
\* different.
C4_NoDuplicateDirective ==
    call = "main" =>
        \A i \in 1..Len(stdout) : \A j \in 1..Len(stdout) :
            i # j => stdout[i] # stdout[j]

\* a Raspberry Pi build with wayland has printed all its ten lines
C4_Witness ==
    /\ Done("link")
    /\ platform = "RPI"
    /\ wayland
    /\ Len(stdout) = 10
    /\ LinkLine("glfw") \in Lines(stdout)

PairOk(p, p_os) ==
    /\ p \in {"RPI", "Android"} => p_os = "Linux"
    /\ p = "Web" => p_os = "Unknown"
    /\ p = "Desktop" => p_os \in {"Windows", "Linux", "BSD", "OSX"}

\* C8: every pair platform_from_target returns has Linux for RaspberryPi and
\* Android, Unknown for Web and one of Windows, Linux, BSD, OSX for Desktop,
\* whatever OS and uname say; the Windows and the Web normalization never
\* both run in one build.
C8_PairInvariant ==
    call = "main" =>
        /\ platform # "" => PairOk(platform, platform_os)
        /\ build_pair.platform # "" =>
              PairOk(build_pair.platform, build_pair.platform_os)
        /\ normalized # {"Windows", "Web"}
        /\ "Windows" \in normalized <=>
              (dst_lib # "" /\ build_pair.platform_os = "Windows")

\* a Web build for a target naming windows, on a host whose OS variable is
\* Windows_NT, ran the Web copy only
C8_Witness ==
    /\ Done("build_with_cmake")
    /\ env_OS = "Windows_NT"
    /\ Contains(target, "windows")
    /\ platform = "Web"
    /\ platform_os = "Unknown"
    /\ normalized = {"Web"}

\* build_with_cmake got past conf.build() with platform_os Windows
WindowsNormalized == call = "main" /\ dst_lib # "" /\ build_pair.platform_os = "Windows"

CopyPanic == PanickedIn("build_with_cmake") /\ panic = "failed to create windows library"

\* the step the chain takes on the library directory as cmake left it
ChainStep ==
    LET d == dst_lib
        before == files0[d]
    IN  IF before["raylib.lib"] # NoFile
        THEN Done("build_with_cmake") /\ files = files0
        ELSE IF before["raylib_static.lib"] # NoFile
        THEN \/ CopyPanic
             \/ /\ Done("build_with_cmake")
                /\ files = [files0 EXCEPT ![d]["raylib.lib"] = before["raylib_static.lib"]]
        ELSE IF before["libraylib_static.a"] # NoFile
        THEN \/ CopyPanic
             \/ /\ Done("build_with_cmake")
                /\ files = [files0 EXCEPT ![d]["libraylib.a"] = before["libraylib_static.a"]]
        ELSE IF before["libraylib.a"] # NoFile
        THEN Done("build_with_cmake") /\ files = files0
        ELSE CopyPanic /\ files = files0

NewFiles ==
    { <<d, n>> \in AllDirs \X FileNames : files0[d][n] = NoFile /\ files[d][n] # NoFile }

ChangedFiles ==
    { <<d, n>> \in AllDirs \X FileNames : files0[d][n] # NoFile /\ files[d][n] # files0[d][n] }

\* C6 as stated: the Windows normalization, run only for PlatformOS Windows,
\* takes the first applicable step of raylib.lib / raylib_static.lib /
\* libraylib_static.a / libraylib.a / panic, and when it does not panic it
\* leaves every file that existed unchanged and creates at most one file.
C6_WindowsChain ==
    /\ WindowsNormalized => ChainStep
    /\ WindowsNormalized /\ Done("build_with_cmake") =>
          ChangedFiles = {} /\ Cardinality(NewFiles) <= 1
    /\ call = "main" /\ build_pair.platform_os # "Windows" /\ build_pair.platform # "Web"
          => files = files0

\* C6 as the code has it: the same chain; when it does not panic it leaves
\* every file but libraylib.a unchanged and creates at most one file, and
\* libraylib.a is replaced by the copy of libraylib_static.a when both exist
\* and neither raylib.lib nor raylib_static.lib does.
C6_WindowsChainOverwrites ==
    /\ WindowsNormalized => ChainStep
    /\ WindowsNormalized /\ Done("build_with_cmake") =>
          /\ ChangedFiles \subseteq {<<dst_lib, "libraylib.a">>}
          /\ Cardinality(NewFiles) <= 1
          /\ ChangedFiles # {} =>
                /\ files0[dst_lib]["raylib.lib"] = NoFile
                /\ files0[dst_lib]["raylib_static.lib"] = NoFile
                /\ files[dst_lib]["libraylib.a"] = files0[dst_lib]["libraylib_static.a"]
    /\ call = "main" /\ build_pair.platform_os # "Windows" /\ build_pair.platform # "Web"
          => files = files0

\* raylib_static.lib alone was copied to raylib.lib
C6_Witness ==
    /\ WindowsNormalized
    /\ Done("build_with_cmake")
    /\ files0[dst_lib] = [EmptyDir EXCEPT !["raylib_static.lib"] = "raylib_static.lib"]
    /\ files[dst_lib]["raylib.lib"] = "raylib_static.lib"
    /\ files[dst_lib]["raylib_static.lib"] = "raylib_static.lib"

\* C10: join_cmake_lib_directory gives the first of lib, lib64, lib32 that
\* exists below the build root, and the build root when none does; the
\* normalization reads and writes that directory only, and it is the path
\* printed as native link search path.
C10_FirstExistingLibDir ==
    call = "main" /\ dst_lib # "" =>
        /\ dst_lib =
              IF Join(BuildRoot, "lib") \in dirs THEN Join(BuildRoot, "lib")
              ELSE IF Join(BuildRoot, "lib64") \in dirs THEN Join(BuildRoot, "lib64")
              ELSE IF Join(BuildRoot, "lib32") \in dirs THEN Join(BuildRoot, "lib32")
              ELSE BuildRoot
        /\ \A d \in AllDirs \ {dst_lib} : files[d] = files0[d]
        /\ Done("build_with_cmake") =>
              /\ stdout[1] = "cargo:rustc-link-search=native=" \o dst_lib
              /\ build_pair.platform_os = "Windows" =>
                    \/ files[dst_lib]["raylib.lib"] # NoFile
                    \/ files[dst_lib]["libraylib.a"] # NoFile
              /\ build_pair.platform = "Web" =>
                    /\ files0[dst_lib]["libraylib.bc"] # NoFile
                    /\ files[dst_lib]["libraylib.a"] = files0[dst_lib]["libraylib.bc"]

\* a build root with lib64 and lib32 but no lib: lib64 was used and printed
C10_Witness ==
    /\ Done("build_with_cmake")
    /\ dirs = {Join(BuildRoot, "lib64"), Join(BuildRoot, "lib32")}
    /\ dst_lib = Join(BuildRoot, "lib64")
    /\ build_pair.platform_os = "Windows"
    /\ files0[dst_lib]["raylib.lib"] = NoFile
    /\ files[dst_lib]["raylib.lib"] # NoFile
    /\ stdout = << "cargo:rustc-link-search=native=/target/out/lib64" >>

====
